---- MODULE Spec2Model ----
(***************************************************************************)
(* Model of the recipe API: the recipe aggregate, its nested tag and       *)
(* ingredient synchronisation (recipe/serializers.py) and the              *)
(* ownership-scoped views (recipe/views.py), and the routes of the user    *)
(* app as section 6 of the specification describes them.  Every request    *)
(* runs to completion against the shared store; one action is one request. *)
(***************************************************************************)
EXTENDS Integers, Sequences, FiniteSets, TLC

\* ------------------------------------------------------------------ bounds
MaxRecipes == 2         \* recipe ids handed out
MaxTags == 2            \* tag ids handed out
MaxIngredients == 1     \* ingredient ids handed out
MaxTagNames == 2        \* length of a nested tags list
MaxIngredientNames == 1 \* length of a nested ingredients list
MaxTagFilter == 2       \* elements of a tags query parameter
MaxIngredientFilter == 1 \* elements of an ingredients query parameter
MaxServed == 1          \* requests one process serves side by side

\* ------------------------------------------------------------ input sets
Users == {"u1", "u2"}
TagNames == {"a", "b"}
IngredientNames == {"x"}
Titles == {"t1", "t2"}
Minutes == {"1", "2"}   \* time_minutes as the request carries it
Prices == {"5.25"}
Links == {"l1"}
Descriptions == {"d1"}
NoValue == "-"          \* Python None / null column
Blank == ""             \* the value of a text column that was not supplied
NoUser == "nobody"
Anonymous == "anonymous" \* a request without valid authentication
Emails == Users \cup {"u3"}
Passwords == {"pw111", "pw222", "pw", ""}
Names == {"n1", "n2"}

SeqsUpTo(S, n) == UNION {[1..k -> S] : k \in 0..n}

VARIABLES
    recipes,             \* Recipe table: rows [id, user, title, time_minutes,
                         \*   price, link, description, image]
    tags,                \* Tag table: rows [id, user, name]
    ingredients,         \* Ingredient table: rows [id, user, name]
    recipe_tags,         \* Recipe.tags through table: <<recipe id, tag id>>
    recipe_ingredients,  \* Recipe.ingredients through table
    nextRecipeId,        \* autoincrement primary keys
    nextTagId,
    nextIngredientId,
    accounts,            \* User table: rows [email, password, name]
    tokens,              \* Token table: the emails a token was issued to
    inflight,            \* the recipe writes the server processes are in,
                         \*   one per process, each at its next query
    last                 \* the request just served and its response

vars == <<recipes, tags, ingredients, recipe_tags, recipe_ingredients,
          nextRecipeId, nextTagId, nextIngredientId, accounts, tokens,
          inflight, last>>

\* ----------------------------------------------------------- row helpers
Ids(rows) == {row.id : row \in rows}

Row(rows, id) == CHOOSE row \in rows : row.id = id

\* the related ids of one recipe in a through table
Linked(links, r) == {l[2] : l \in {m \in links : m[1] = r}}

\* the body of a response that carries no single object
NoData == [id |-> 0]

\* the request just served and its response, until the client has it:
\* operation, requester, target id, request data, HTTP status, the ids
\* of the rows in the response body and, for a response that carries one
\* recipe, its serialized fields
Response(op, user, pk, req, status, body) ==
    [op |-> op, user |-> user, pk |-> pk, req |-> req,
     status |-> status, body |-> body, data |-> NoData]

NoRequest == [keys |-> {}]

NoResponse == Response("none", NoUser, 0, NoRequest, 0, <<>>)

\* requests are served one at a time, each to completion
Idle == last = NoResponse

\* the server processes that serve requests side by side
Workers == {"w1", "w2"}

\* a process that serves no recipe write
NoWork ==
    [pc |-> "idle", op |-> "none", user |-> NoUser, pk |-> 0,
     field |-> "tags", given |-> {}, tags |-> <<>>, ingredients |-> <<>>,
     obj |-> 0, absent |-> {}, status |-> 0, served |-> 0]

\* Init: the users of Users are registered and nothing else is stored.
Init ==
    /\ recipes = {}
    /\ tags = {}
    /\ ingredients = {}
    /\ recipe_tags = {}
    /\ recipe_ingredients = {}
    /\ nextRecipeId = 1
    /\ nextTagId = 1
    /\ nextIngredientId = 1
    /\ accounts = {[email |-> u, password |-> "pw111", name |-> "n1"] :
                      u \in Users}
    /\ tokens = {}
    /\ inflight = [w \in Workers |-> NoWork]
    /\ last = NoResponse

\* ------------------------------------------------- request payloads
\* A recipe write payload: the keys present and their values.  A key that
\* is absent carries the placeholder value.
ScalarKeys == {"title", "time_minutes", "price", "link", "description"}

RecipeKeys == ScalarKeys \cup {"tags", "ingredients", "user"}

\* the fields a create and a full update must supply
Required == {"title", "time_minutes", "price"}

\* the scalar values of a payload, NoValue for a key that is absent
ScalarValues ==
    [title : Titles \cup {NoValue},
     time_minutes : Minutes \cup {NoValue},
     price : Prices \cup {NoValue},
     link : Links \cup {NoValue},
     description : Descriptions \cup {NoValue}]

\* a nested list of a payload: absent, or given with its names
Absent == [given |-> FALSE, names |-> <<>>]

NestedLists(names, n) ==
    {Absent} \cup {[given |-> TRUE, names |-> l] : l \in SeqsUpTo(names, n)}

Payload(values, tagList, ingredientList, user) ==
    [keys |-> {k \in ScalarKeys : values[k] # NoValue}
                 \cup (IF tagList.given THEN {"tags"} ELSE {})
                 \cup (IF ingredientList.given THEN {"ingredients"} ELSE {})
                 \cup (IF user # NoUser THEN {"user"} ELSE {}),
     title |-> values.title,
     time_minutes |-> values.time_minutes,
     price |-> values.price,
     link |-> values.link,
     description |-> values.description,
     tags |-> tagList.names,
     ingredients |-> ingredientList.names,
     user |-> user]

NoScalars ==
    [title |-> NoValue, time_minutes |-> NoValue, price |-> NoValue,
     link |-> NoValue, description |-> NoValue]

RequiredScalars ==
    [title |-> "t1", time_minutes |-> "1", price |-> "5.25",
     link |-> NoValue, description |-> NoValue]

\* the payloads about the nested lists and the owner: the required fields
\* come together with one value each or not at all, and a payload either
\* carries nested lists or names a user
RecipePayloads ==
    {Payload(values, Absent, Absent, user) :
        values \in {NoScalars, RequiredScalars}, user \in Users}
    \cup
    {Payload(values, tagList, ingredientList, NoUser) :
        values \in {NoScalars, RequiredScalars},
        tagList \in NestedLists(TagNames, MaxTagNames),
        ingredientList \in NestedLists(IngredientNames, MaxIngredientNames)}

\* the payloads about the scalar fields: no nested list and no user
ScalarPayloads ==
    {Payload(values, Absent, Absent, NoUser) : values \in ScalarValues}

\* int(str_id): the decimal tokens convert, anything else raises ValueError.
IsInt(tok) == \E n \in 0..(MaxTags + MaxIngredients + 1) : ToString(n) = tok

ParseInt(tok) ==
    CHOOSE n \in 0..(MaxTags + MaxIngredients + 1) : ToString(n) = tok

\* Meta.fields with the owner among the writable fields
SerializerFieldsWithUser ==
    {"title", "time_minutes", "price", "link", "tags", "ingredients", "user"}

\* RecipeSerializer.Meta.fields without the read-only id: the keys the
\* list serializer declares.
SerializerFields ==
    {"title", "time_minutes", "price", "link", "tags", "ingredients"}

\* the detail serializer without the description
DetailSerializerFieldsShort == SerializerFields

\* RecipeDetailSerializer.Meta.fields: the serializer of every recipe
\* action but list
DetailSerializerFields == SerializerFields \cup {"description"}

\* the keys of the payload that reach validated_data; any key the
\* serializer does not declare is dropped
ValidatedKeys(p) == p.keys \cap DetailSerializerFields

\* is_valid(): a create and a full update must supply the required
\* fields, a partial update may omit them; time_minutes must convert.
IsValid(p, partial) ==
    /\ partial \/ Required \subseteq p.keys
    /\ "time_minutes" \in p.keys => IsInt(p.time_minutes)

\* serializer.data of one recipe: the id and the scalar fields the
\* serializer declares
Representation(instance, fields) ==
    [f \in (fields \cap ScalarKeys) \cup {"id"} |-> instance[f]]

\* ------------------------------------- nested get-or-create (serializer)
\* get_or_create looking the row up by name alone
GetOrCreateAnyUser(rows, nextId, auth_user, name) ==
    LET found == {row \in rows : row.name = name}
    IN  IF Cardinality(found) = 1
        THEN [ok |-> TRUE, obj |-> (CHOOSE row \in found : TRUE).id,
              rows |-> rows, nextId |-> nextId]
        ELSE IF found = {}
        THEN [ok |-> TRUE, obj |-> nextId,
              rows |-> rows \cup {[id |-> nextId, user |-> auth_user,
                                   name |-> name]},
              nextId |-> nextId + 1]
        ELSE [ok |-> FALSE, obj |-> 0, rows |-> rows, nextId |-> nextId]

\* model.objects.get_or_create(user=auth_user, name=name): the one matching
\* row, a new row when none matches, MultipleObjectsReturned when several do.
GetOrCreate(rows, nextId, auth_user, name) ==
    LET found == {row \in rows : row.user = auth_user /\ row.name = name}
    IN  IF Cardinality(found) = 1
        THEN [ok |-> TRUE, obj |-> (CHOOSE row \in found : TRUE).id,
              rows |-> rows, nextId |-> nextId]
        ELSE IF found = {}
        THEN [ok |-> TRUE, obj |-> nextId,
              rows |-> rows \cup {[id |-> nextId, user |-> auth_user,
                                   name |-> name]},
              nextId |-> nextId + 1]
        ELSE [ok |-> FALSE, obj |-> 0, rows |-> rows, nextId |-> nextId]

\* _get_or_create_field: for each name in order, get or create the row of
\* auth_user and add it to the recipe's relation.  st carries the table,
\* the through table and the id counter; an exception leaves what the
\* earlier iterations wrote and sets ok to FALSE.
RECURSIVE GetOrCreateField(_, _, _, _)
GetOrCreateField(field, auth_user, instance, st) ==
    IF field = <<>> \/ ~st.ok THEN st
    ELSE LET g == GetOrCreate(st.rows, st.nextId, auth_user, Head(field))
         IN  IF ~g.ok THEN [st EXCEPT !.ok = FALSE]
             ELSE GetOrCreateField(Tail(field), auth_user, instance,
                      [ok |-> TRUE, rows |-> g.rows,
                       links |-> st.links \cup {<<instance, g.obj>>},
                       nextId |-> g.nextId])

Store(rows, links, nextId) ==
    [ok |-> TRUE, rows |-> rows, links |-> links, nextId |-> nextId]

\* clear() emptying the whole through table
ClearEveryRecipe(links, instance) == {}

\* instance.tags.clear(): the through rows of this recipe go
Clear(links, instance) == {l \in links : l[1] # instance}

\* update() popping the list with a default of [] instead of None, so that
\* an absent key clears the relation as an empty list does
SyncRelationAlways(given, field, auth_user, instance, st) ==
    GetOrCreateField(field, auth_user, instance,
        [st EXCEPT !.links = {l \in st.links : l[1] # instance}])

\* update(): `if tags is not None:` clear the relation and rebuild it from
\* the list; a relation whose key is absent is not touched
SyncRelation(given, field, auth_user, instance, st) ==
    IF given
    THEN GetOrCreateField(field, auth_user, instance,
             [st EXCEPT !.links = Clear(st.links, instance)])
    ELSE st

\* the setattr loop writing every field, the value of a key that is
\* absent included
SetAttrsAll(instance, p, keys) ==
    [instance EXCEPT
        !.title = p.title,
        !.time_minutes = IF "time_minutes" \in keys
                         THEN ParseInt(p.time_minutes) ELSE 0,
        !.price = p.price,
        !.link = p.link,
        !.description = p.description]

\* update(): `for attr, value in validated_data.items(): setattr(...)`
\* over the scalar keys left in validated_data
SetAttrs(instance, p, keys) ==
    [instance EXCEPT
        !.title = IF "title" \in keys THEN p.title ELSE @,
        !.time_minutes = IF "time_minutes" \in keys
                         THEN ParseInt(p.time_minutes) ELSE @,
        !.price = IF "price" \in keys THEN p.price ELSE @,
        !.link = IF "link" \in keys THEN p.link ELSE @,
        !.description = IF "description" \in keys THEN p.description ELSE @,
        !.user = IF "user" \in keys THEN p.user ELSE @]

\* a response that carries one recipe as the detail serializer shows it
ObjectResponse(op, user, pk, req, status, instance) ==
    [Response(op, user, pk, req, status, <<pk>>) EXCEPT
        !.data = Representation(instance, DetailSerializerFields)]

\* ---------------------------------------------------- recipe querysets
\* A query parameter is the sequence of its comma separated elements; the
\* empty sequence is an absent parameter and <<"">> the empty string, both
\* of which `if tags:` skips.
Given(qs) == qs # <<>> /\ qs # <<"">>

\* _params_to_int
ParamsToInt(qs) == [k \in DOMAIN qs |-> ParseInt(qs[k])]

ParamsOk(qs) == \A k \in DOMAIN qs : IsInt(qs[k])

Range(f) == {f[k] : k \in DOMAIN f}

\* the join without the id condition
JoinAny(bag, links, ids) ==
    [r \in DOMAIN bag |-> bag[r] * Cardinality({l \in links : l[1] = r})]

\* queryset.filter(<relation>__id__in=ids): the join with the through
\* table yields one result row per matching through row.
JoinIn(bag, links, ids) ==
    [r \in DOMAIN bag |->
        bag[r] * Cardinality({l \in links : l[1] = r /\ l[2] \in ids})]

\* the owner filter left out
FilterUserNone(bag, user) == bag

\* queryset.filter(user=user)
FilterUser(bag, user) ==
    [r \in DOMAIN bag |-> IF Row(recipes, r).user = user THEN bag[r] ELSE 0]

\* distinct() left out
DistinctNone(bag) == bag

\* .distinct()
Distinct(bag) == [r \in DOMAIN bag |-> IF bag[r] > 0 THEN 1 ELSE 0]

Max(S) == CHOOSE m \in S : \A n \in S : n <= m

Repeat(x, n) == [k \in 1..n |-> x]

\* the number of result rows of a bag over the ids
RECURSIVE Sum(_, _)
Sum(bag, ids) ==
    IF ids = {} THEN 0
    ELSE LET m == Max(ids) IN bag[m] + Sum(bag, ids \ {m})

\* .order_by('-id'): the result rows, highest id first
RECURSIVE OrderByIdDesc(_, _)
OrderByIdDesc(bag, ids) ==
    IF ids = {} THEN <<>>
    ELSE LET m == Max(ids)
         IN  Repeat(m, bag[m]) \o OrderByIdDesc(bag, ids \ {m})

\* RecipeViewSet.get_queryset for the list route: the ids of the result
\* rows in order.  Defined when both parameters convert.
RecipeQueryset(user, tagsParam, ingredientsParam) ==
    LET all == [r \in Ids(recipes) |-> 1]
        byTags == IF Given(tagsParam)
                  THEN JoinIn(all, recipe_tags,
                              Range(ParamsToInt(tagsParam)))
                  ELSE all
        byIngredients == IF Given(ingredientsParam)
                         THEN JoinIn(byTags, recipe_ingredients,
                                     Range(ParamsToInt(ingredientsParam)))
                         ELSE byTags
        own == FilterUser(byIngredients, user)
    IN  OrderByIdDesc(Distinct(own), Ids(recipes))

\* RecipeViewSet.get_queryset without query parameters, as get_object uses
\* it for the detail routes: the requester's recipes.
OwnRecipes(user) == {r \in recipes : r.user = user}

NoChange ==
    UNCHANGED <<recipes, tags, ingredients, recipe_tags, recipe_ingredients,
                nextRecipeId, nextTagId, nextIngredientId>>

\* GET /recipes?tags=..&ingredients=..
ListRecipes(u, tagsParam, ingredientsParam) ==
    /\ NoChange
    /\ last' =
         IF (Given(tagsParam) /\ ~ParamsOk(tagsParam))
            \/ (Given(ingredientsParam) /\ ~ParamsOk(ingredientsParam))
         THEN Response("list", u, 0,
                       [tags |-> tagsParam, ingredients |-> ingredientsParam],
                       500, <<>>)
         ELSE Response("list", u, 0,
                       [tags |-> tagsParam, ingredients |-> ingredientsParam],
                       200,
                       RecipeQueryset(u, tagsParam, ingredientsParam))

\* the response to GET /recipes/{pk}: get_object over the requester's
\* recipes, then the detail serializer
RetrieveResponse(u, pk) ==
    IF pk \in Ids(OwnRecipes(u))
    THEN ObjectResponse("retrieve", u, pk, NoRequest, 200, Row(recipes, pk))
    ELSE Response("retrieve", u, pk, NoRequest, 404, <<>>)

\* GET /recipes/{pk}
RetrieveRecipe(u, pk) ==
    /\ NoChange
    /\ last' = RetrieveResponse(u, pk)

\* a delete that removes the row and leaves its through rows behind
DestroyRecipeKeepLinks(u, pk) ==
    IF pk \in Ids(OwnRecipes(u))
    THEN /\ recipes' = recipes \ {Row(recipes, pk)}
         /\ last' = Response("destroy", u, pk, NoRequest, 204, <<>>)
         /\ UNCHANGED <<tags, ingredients, recipe_tags, recipe_ingredients,
                        nextRecipeId, nextTagId, nextIngredientId>>
    ELSE /\ NoChange
         /\ last' = Response("destroy", u, pk, NoRequest, 404, <<>>)

\* DELETE /recipes/{pk}: the row and its through rows go, the related
\* tags and ingredients stay.
DestroyRecipe(u, pk) ==
    IF pk \in Ids(OwnRecipes(u))
    THEN /\ recipes' = recipes \ {Row(recipes, pk)}
         /\ recipe_tags' = {l \in recipe_tags : l[1] # pk}
         /\ recipe_ingredients' = {l \in recipe_ingredients : l[1] # pk}
         /\ last' = Response("destroy", u, pk, NoRequest, 204, <<>>)
         /\ UNCHANGED <<tags, ingredients, nextRecipeId, nextTagId,
                        nextIngredientId>>
    ELSE /\ NoChange
         /\ last' = Response("destroy", u, pk, NoRequest, 404, <<>>)

\* recipe.serializers defines IngredientSerializer, TagSerializer,
\* RecipeSerializer and RecipeDetailSerializer, and no RecipeImageSerializer
SerializerClasses ==
    {"IngredientSerializer", "TagSerializer", "RecipeSerializer",
     "RecipeDetailSerializer"}

\* the upload request: whether the payload is a valid image
ImageRequest(valid) == [keys |-> {"image"}, valid |-> valid]

\* POST /recipes/{pk}/upload-image: get_object (404), then get_serializer,
\* whose get_serializer_class reads serializers.RecipeImageSerializer: the
\* attribute is missing and the request ends 500.  With the class in
\* place a valid image is saved together with user=request.user (200)
\* and an invalid one is answered 400.
UploadImage(u, pk, valid) ==
    IF pk \notin Ids(OwnRecipes(u))
    THEN /\ NoChange
         /\ last' = Response("upload_image", u, pk, ImageRequest(valid),
                             404, <<>>)
    ELSE IF "RecipeImageSerializer" \notin SerializerClasses
    THEN /\ NoChange
         /\ last' = Response("upload_image", u, pk, ImageRequest(valid),
                             500, <<>>)
    ELSE IF ~valid
    THEN /\ NoChange
         /\ last' = Response("upload_image", u, pk, ImageRequest(valid),
                             400, <<>>)
    ELSE LET recipe == Row(recipes, pk)
         IN  /\ recipes' = (recipes \ {recipe}) \cup
                   {[recipe EXCEPT !.image = "img", !.user = u]}
             /\ last' = Response("upload_image", u, pk, ImageRequest(valid),
                                 200, <<pk>>)
             /\ UNCHANGED <<tags, ingredients, recipe_tags,
                            recipe_ingredients, nextRecipeId, nextTagId,
                            nextIngredientId>>

\* ------------------------------------------------------ recipe create
\* POST /recipes: validate, then RecipeSerializer.create with
\* user=request.user (perform_create).  The recipe row is written first,
\* then the tags, then the ingredients; an exception in a later step
\* leaves the earlier writes in place.
CreateRecipe(u, p) ==
    /\ nextRecipeId <= MaxRecipes
    /\ IF ~IsValid(p, FALSE)
       THEN /\ last' = Response("create", u, 0, p, 400, <<>>)
            /\ NoChange
       ELSE LET id == nextRecipeId
                keys == ValidatedKeys(p)
                recipe == [id |-> id, user |-> u, title |-> p.title,
                           time_minutes |-> ParseInt(p.time_minutes),
                           price |-> p.price,
                           link |-> IF "link" \in keys
                                    THEN p.link ELSE Blank,
                           description |-> IF "description" \in keys
                                           THEN p.description ELSE Blank,
                           image |-> NoValue]
                t == GetOrCreateField(p.tags, u, id,
                         Store(tags, recipe_tags, nextTagId))
                i == IF t.ok
                     THEN GetOrCreateField(p.ingredients, u, id,
                              Store(ingredients, recipe_ingredients,
                                    nextIngredientId))
                     ELSE Store(ingredients, recipe_ingredients,
                                nextIngredientId)
            IN  /\ t.nextId <= MaxTags + 1
                /\ i.nextId <= MaxIngredients + 1
                /\ recipes' = recipes \cup {recipe}
                /\ nextRecipeId' = id + 1
                /\ tags' = t.rows
                /\ recipe_tags' = t.links
                /\ nextTagId' = t.nextId
                /\ ingredients' = i.rows
                /\ recipe_ingredients' = i.links
                /\ nextIngredientId' = i.nextId
                /\ last' = IF t.ok /\ i.ok
                           THEN ObjectResponse("create", u, id, p, 201,
                                               recipe)
                           ELSE Response("create", u, id, p, 500, <<>>)

\* ------------------------------------------------------ recipe update
\* PUT / PATCH /recipes/{pk}: get_object over the requester's queryset
\* (404), validation (400), then RecipeSerializer.update: a relation whose
\* key is present is cleared and rebuilt, then the scalar fields are set
\* and the row saved.  An exception while rebuilding skips everything
\* after it and leaves the writes already made.
UpdateRecipe(u, pk, p, partial) ==
    LET op == IF partial THEN "partial_update" ELSE "update" IN
    IF pk \notin Ids(OwnRecipes(u))
    THEN /\ last' = Response(op, u, pk, p, 404, <<>>)
         /\ NoChange
    ELSE IF ~IsValid(p, partial)
    THEN /\ last' = Response(op, u, pk, p, 400, <<>>)
         /\ NoChange
    ELSE LET instance == Row(recipes, pk)
             keys == ValidatedKeys(p)
             t == SyncRelation("tags" \in keys, p.tags, u, pk,
                      Store(tags, recipe_tags, nextTagId))
             i == IF t.ok
                  THEN SyncRelation("ingredients" \in keys, p.ingredients,
                           u, pk, Store(ingredients, recipe_ingredients,
                                        nextIngredientId))
                  ELSE Store(ingredients, recipe_ingredients,
                             nextIngredientId)
             saved == SetAttrs(instance, p, keys)
         IN  /\ t.nextId <= MaxTags + 1
             /\ i.nextId <= MaxIngredients + 1
             /\ tags' = t.rows
             /\ recipe_tags' = t.links
             /\ nextTagId' = t.nextId
             /\ ingredients' = i.rows
             /\ recipe_ingredients' = i.links
             /\ nextIngredientId' = i.nextId
             /\ recipes' = IF t.ok /\ i.ok
                           THEN (recipes \ {instance}) \cup {saved}
                           ELSE recipes
             /\ last' = IF t.ok /\ i.ok
                        THEN ObjectResponse(op, u, pk, p, 200, saved)
                        ELSE Response(op, u, pk, p, 500, <<>>)
             /\ UNCHANGED nextRecipeId

\* ------------------------------------------- tag / ingredient views
\* BaseAttributeViewSet serves both models; kind selects the table.
Kinds == {"tag", "ingredient"}

AttrRows(kind) == IF kind = "tag" THEN tags ELSE ingredients

AttrLinks(kind) == IF kind = "tag" THEN recipe_tags ELSE recipe_ingredients

AttrNames(kind) == IF kind = "tag" THEN TagNames ELSE IngredientNames

MaxAttr(kind) == IF kind = "tag" THEN MaxTags ELSE MaxIngredients

\* the tables after a write of one attribute table and its through table
WriteAttr(kind, rows, links) ==
    /\ IF kind = "tag"
       THEN /\ tags' = rows
            /\ recipe_tags' = links
            /\ UNCHANGED <<ingredients, recipe_ingredients>>
       ELSE /\ ingredients' = rows
            /\ recipe_ingredients' = links
            /\ UNCHANGED <<tags, recipe_tags>>
    /\ UNCHANGED <<recipes, nextRecipeId, nextTagId, nextIngredientId>>

\* the owner filter left out of the detail queryset
OwnAttrsAnyUser(kind, user) == AttrRows(kind)

\* BaseAttributeViewSet.get_queryset without query parameters, as
\* get_object uses it: the requester's rows.
OwnAttrs(kind, user) == {row \in AttrRows(kind) : row.user = user}

\* .order_by('-name'): names compare as strings
NameOrder == <<"a", "b", "x", "y">>

NameRank(name) == CHOOSE k \in DOMAIN NameOrder : NameOrder[k] = name

\* the orderings of the result rows that order_by('-name') can return:
\* each row as often as the bag holds it, rows of equal name in any order
ByNameDesc(rows, bag) ==
    LET total == Sum(bag, DOMAIN bag)
    IN  {q \in [1..total -> Ids(rows)] :
            /\ \A id \in Ids(rows) :
                  Cardinality({k \in DOMAIN q : q[k] = id}) = bag[id]
            /\ \A j, k \in DOMAIN q :
                  j < k => NameRank(Row(rows, q[j]).name)
                             >= NameRank(Row(rows, q[k]).name)}

\* the assigned_only join left out
RecipeNotNullAll(bag, links) == bag

\* queryset.filter(recipe__isnull=False): the join with the through table
\* yields one result row per through row of the attribute
RecipeNotNull(bag, links) ==
    [a \in DOMAIN bag |-> bag[a] * Cardinality({l \in links : l[2] = a})]

\* BaseAttributeViewSet.get_queryset: assigned_only keeps the rows joined
\* to a recipe, then the owner filter and distinct().  The result rows as
\* a bag over the ids of the table.
AttrQueryset(kind, user, assigned_only) ==
    LET rows == AttrRows(kind)
        all == [a \in Ids(rows) |-> 1]
        assigned == IF assigned_only
                    THEN RecipeNotNull(all, AttrLinks(kind))
                    ELSE all
        own == [a \in Ids(rows) |->
                   IF Row(rows, a).user = user THEN assigned[a] ELSE 0]
    IN  Distinct(own)

\* bool(int(assigned_only)) of the query parameter, absent meaning 0
AssignedOnlyParams == {"", "0", "1", "yes"}

AssignedOnlyOk(param) == param = "" \/ IsInt(param)

AssignedOnly(param) == IF param = "" THEN FALSE ELSE ParseInt(param) # 0

\* GET /tags, GET /ingredients
ListAttrs(kind, u, param) ==
    /\ NoChange
    /\ IF ~AssignedOnlyOk(param)
       THEN last' = Response("list_" \o kind, u, 0,
                             [assigned_only |-> param], 500, <<>>)
       ELSE \E body \in ByNameDesc(AttrRows(kind),
                          AttrQueryset(kind, u, AssignedOnly(param))) :
               last' = Response("list_" \o kind, u, 0,
                                [assigned_only |-> param], 200, body)

\* PUT / PATCH /tags/{pk}, /ingredients/{pk}: name is the one writable
\* field; a full update must supply it.
UpdateAttr(kind, u, pk, name, partial) ==
    LET op == (IF partial THEN "partial_update_" ELSE "update_") \o kind
        keys == [keys |-> IF name = NoValue THEN {} ELSE {"name"},
                 name |-> name]
    IN
    IF pk \notin Ids(OwnAttrs(kind, u))
    THEN /\ NoChange
         /\ last' = Response(op, u, pk, keys, 404, <<>>)
    ELSE IF ~partial /\ name = NoValue
    THEN /\ NoChange
         /\ last' = Response(op, u, pk, keys, 400, <<>>)
    ELSE LET row == Row(AttrRows(kind), pk)
             saved == IF name = NoValue THEN row
                      ELSE [row EXCEPT !.name = name]
         IN  /\ WriteAttr(kind, (AttrRows(kind) \ {row}) \cup {saved},
                          AttrLinks(kind))
             /\ last' = Response(op, u, pk, keys, 200, <<pk>>)

\* DELETE /tags/{pk}, /ingredients/{pk}: the row and its through rows go.
DestroyAttr(kind, u, pk) ==
    IF pk \notin Ids(OwnAttrs(kind, u))
    THEN /\ NoChange
         /\ last' = Response("destroy_" \o kind, u, pk, NoRequest, 404, <<>>)
    ELSE /\ WriteAttr(kind, AttrRows(kind) \ {Row(AttrRows(kind), pk)},
                      {l \in AttrLinks(kind) : l[2] # pk})
         /\ last' = Response("destroy_" \o kind, u, pk, NoRequest, 204, <<>>)

\* GET /tags/{pk}, /ingredients/{pk}: the viewset has no retrieve action,
\* so the detail route binds no handler to GET.
RetrieveAttr(kind, u, pk) ==
    /\ NoChange
    /\ last' = Response("retrieve_" \o kind, u, pk, NoRequest, 405, <<>>)

\* the view with CreateModelMixin among its bases: a row of the name is
\* stored for the requester
CreateAttrCreates(kind, u, name) ==
    LET req == [keys |-> {"name"}, name |-> name] IN
    IF kind = "tag"
    THEN /\ nextTagId <= MaxTags
         /\ tags' = tags \cup {[id |-> nextTagId, user |-> u, name |-> name]}
         /\ nextTagId' = nextTagId + 1
         /\ last' = Response("create_tag", u, nextTagId, req, 201,
                             <<nextTagId>>)
         /\ UNCHANGED <<recipes, ingredients, recipe_tags,
                        recipe_ingredients, nextRecipeId, nextIngredientId>>
    ELSE /\ nextIngredientId <= MaxIngredients
         /\ ingredients' = ingredients \cup
               {[id |-> nextIngredientId, user |-> u, name |-> name]}
         /\ nextIngredientId' = nextIngredientId + 1
         /\ last' = Response("create_ingredient", u, nextIngredientId, req,
                             201, <<nextIngredientId>>)
         /\ UNCHANGED <<recipes, tags, recipe_tags, recipe_ingredients,
                        nextRecipeId, nextTagId>>

\* POST /tags, POST /ingredients: the viewset has no create action, so
\* the list route binds no handler to POST.
CreateAttr(kind, u, name) ==
    /\ NoChange
    /\ last' = Response("create_" \o kind, u, 0,
                        [keys |-> {"name"}, name |-> name], 405, <<>>)

\* ------------------------------------------------------------ requests
EmptyPayload ==
    [keys |-> {}, title |-> NoValue, time_minutes |-> NoValue,
     price |-> NoValue, link |-> NoValue, description |-> NoValue,
     tags |-> <<>>, ingredients |-> <<>>, user |-> NoUser]

\* the payload is read after get_object: a request that get_object
\* rejects is drawn with the empty payload
PayloadsFor(u, pk) ==
    IF pk \in Ids(OwnRecipes(u)) THEN RecipePayloads ELSE {EmptyPayload}

ScalarPayloadsFor(u, pk) ==
    IF pk \in Ids(OwnRecipes(u)) THEN ScalarPayloads ELSE {EmptyPayload}

\* the elements a tags / ingredients query parameter is drawn from
Tokens(n) == {ToString(k) : k \in 1..n} \cup {""}

QueryParams(n, len) == SeqsUpTo(Tokens(n), len)

\* Deliver: the client takes the response; the server is idle again.
Deliver ==
    /\ ~Idle
    /\ last' = NoResponse
    /\ NoChange
    /\ UNCHANGED <<accounts, tokens, inflight>>

\* -------------------------------------- authentication and permission
\* permission_classes with no restriction
PermissionClassesAllowAny == {"AllowAny"}

\* permission_classes of RecipeViewSet and of BaseAttributeViewSet
PermissionClasses == {"IsAuthenticated"}

\* TokenAuthentication: the request carries the token of a user
Authenticated(u) == u \in Users

\* check_permissions before the handler is looked up
Denied(u) == "IsAuthenticated" \in PermissionClasses /\ ~Authenticated(u)

UpdateOp(partial) == IF partial THEN "partial_update" ELSE "update"

\* a view of the recipe app: authentication and permissions first (401),
\* then the handler of the route
RecipeView(u, op, pk, handler) ==
    /\ UNCHANGED <<accounts, tokens, inflight>>
    /\ IF Denied(u)
       THEN /\ NoChange
            /\ last' = Response(op, u, pk, NoRequest, 401, <<>>)
       ELSE handler

DoCreateRecipe ==
    Idle /\ \E u \in Users, p \in RecipePayloads :
               RecipeView(u, "create", 0, CreateRecipe(u, p))

DoUpdateRecipe ==
    Idle /\ \E u \in Users, pk \in 1..MaxRecipes, partial \in BOOLEAN :
               \E p \in PayloadsFor(u, pk) :
                  RecipeView(u, UpdateOp(partial), pk,
                             UpdateRecipe(u, pk, p, partial))

\* create and update requests whose payloads carry scalar fields only
DoCreateScalars ==
    Idle /\ \E u \in Users, p \in ScalarPayloads :
               RecipeView(u, "create", 0, CreateRecipe(u, p))

DoUpdateScalars ==
    Idle /\ \E u \in Users, pk \in 1..MaxRecipes, partial \in BOOLEAN :
               \E p \in ScalarPayloadsFor(u, pk) :
                  RecipeView(u, UpdateOp(partial), pk,
                             UpdateRecipe(u, pk, p, partial))

DoDestroyRecipe ==
    Idle /\ \E u \in Users, pk \in 1..MaxRecipes :
               RecipeView(u, "destroy", pk, DestroyRecipe(u, pk))

DoUploadImage ==
    Idle /\ \E u \in Users, pk \in 1..MaxRecipes, valid \in BOOLEAN :
               RecipeView(u, "upload_image", pk, UploadImage(u, pk, valid))

DoRetrieveRecipe ==
    Idle /\ \E u \in Users, pk \in 1..MaxRecipes :
               RecipeView(u, "retrieve", pk, RetrieveRecipe(u, pk))

DoListRecipes ==
    Idle /\ \E u \in Users, tagsParam \in QueryParams(MaxTags, MaxTagFilter),
               ingredientsParam \in
                  QueryParams(MaxIngredients, MaxIngredientFilter) :
               RecipeView(u, "list", 0,
                          ListRecipes(u, tagsParam, ingredientsParam))

DoListAttrs ==
    Idle /\ \E kind \in Kinds, u \in Users, param \in AssignedOnlyParams :
               RecipeView(u, "list_" \o kind, 0, ListAttrs(kind, u, param))

DoUpdateAttr ==
    Idle /\ \E kind \in Kinds, u \in Users, partial \in BOOLEAN :
               \E pk \in 1..MaxAttr(kind),
                  name \in AttrNames(kind) \cup {NoValue} :
                  RecipeView(u, UpdateOp(partial) \o "_" \o kind, pk,
                             UpdateAttr(kind, u, pk, name, partial))

DoDestroyAttr ==
    Idle /\ \E kind \in Kinds, u \in Users :
               \E pk \in 1..MaxAttr(kind) :
                  RecipeView(u, "destroy_" \o kind, pk,
                             DestroyAttr(kind, u, pk))

DoCreateAttr ==
    Idle /\ \E kind \in Kinds, u \in Users :
               \E name \in AttrNames(kind) :
                  RecipeView(u, "create_" \o kind, 0,
                             CreateAttr(kind, u, name))

DoRetrieveAttr ==
    Idle /\ \E kind \in Kinds, u \in Users :
               \E pk \in 1..MaxAttr(kind) :
                  RecipeView(u, "retrieve_" \o kind, pk,
                             RetrieveAttr(kind, u, pk))

\* ------------------------------------------------------------ user app
\* the shortest password the user serializer accepts
MinPasswordLength == 5

Registered == {a.email : a \in accounts}

Account(email) == CHOOSE a \in accounts : a.email = email

UserRequest(email, password, name) ==
    [keys |-> {"email" : x \in {email} \ {NoValue}}
                 \cup {"password" : x \in {password} \ {NoValue}}
                 \cup {"name" : x \in {name} \ {NoValue}},
     email |-> email, password |-> password, name |-> name]

UserResponse(op, user, req, status, data) ==
    [Response(op, user, 0, req, status, <<>>) EXCEPT !.data = data]

\* POST /users: 201 with email and name, or 400 when the email is taken or
\* the password is too short
CreateUser(email, password, name) ==
    LET req == UserRequest(email, password, name) IN
    IF email \in Registered \/ Len(password) < MinPasswordLength
    THEN /\ UNCHANGED <<accounts, tokens>>
         /\ last' = UserResponse("create_user", Anonymous, req, 400, NoData)
    ELSE /\ accounts' = accounts \cup
            {[email |-> email, password |-> password, name |-> name]}
         /\ UNCHANGED tokens
         /\ last' = UserResponse("create_user", Anonymous, req, 201,
                                 [email |-> email, name |-> name])

\* token issuance answering every request with a token
CreateTokenAlways(email, password) ==
    LET req == UserRequest(email, password, NoValue) IN
    /\ tokens' = tokens \cup {email}
    /\ UNCHANGED accounts
    /\ last' = UserResponse("create_token", Anonymous, req, 200,
                            [token |-> "token-" \o email])

\* POST /users/token: 200 with the token of the user whose email and
\* password the body carries, 400 for a blank password, an unknown email
\* or a wrong password
CreateToken(email, password) ==
    LET req == UserRequest(email, password, NoValue) IN
    IF /\ password # ""
       /\ \E a \in accounts : a.email = email /\ a.password = password
    THEN /\ tokens' = tokens \cup {email}
         /\ UNCHANGED accounts
         /\ last' = UserResponse("create_token", Anonymous, req, 200,
                                 [token |-> "token-" \o email])
    ELSE /\ UNCHANGED <<accounts, tokens>>
         /\ last' = UserResponse("create_token", Anonymous, req, 400, NoData)

\* GET /users/me: name and email of the requester
RetrieveMe(u) ==
    /\ UNCHANGED <<accounts, tokens>>
    /\ last' = UserResponse("retrieve_me", u, NoRequest, 200,
                            [name |-> Account(u).name, email |-> u])

\* PATCH /users/me: the name and the password the body carries are set
UpdateMe(u, password, name) ==
    LET req == UserRequest(NoValue, password, name)
        saved == [Account(u) EXCEPT
                     !.password = IF password = NoValue THEN @ ELSE password,
                     !.name = IF name = NoValue THEN @ ELSE name]
    IN
    IF password # NoValue /\ Len(password) < MinPasswordLength
    THEN /\ UNCHANGED <<accounts, tokens>>
         /\ last' = UserResponse("update_me", u, req, 400, NoData)
    ELSE /\ accounts' = (accounts \ {Account(u)}) \cup {saved}
         /\ UNCHANGED tokens
         /\ last' = UserResponse("update_me", u, req, 200,
                                 [name |-> saved.name, email |-> u])

\* a view of the user app that requires authentication
MeView(u, op, handler) ==
    /\ NoChange
    /\ UNCHANGED inflight
    /\ IF Denied(u)
       THEN /\ UNCHANGED <<accounts, tokens>>
            /\ last' = Response(op, u, 0, NoRequest, 401, <<>>)
       ELSE handler

DoCreateUser ==
    Idle /\ \E email \in Emails, password \in Passwords, name \in Names :
               /\ NoChange
               /\ UNCHANGED inflight
               /\ CreateUser(email, password, name)

DoCreateToken ==
    Idle /\ \E email \in Emails, password \in Passwords :
               /\ NoChange
               /\ UNCHANGED inflight
               /\ CreateToken(email, password)

DoRetrieveMe ==
    Idle /\ \E u \in Users : MeView(u, "retrieve_me", RetrieveMe(u))

DoUpdateMe ==
    Idle /\ \E u \in Users, password \in Passwords \cup {NoValue},
               name \in Names \cup {NoValue} :
               MeView(u, "update_me", UpdateMe(u, password, name))

\* the payload of a create that is valid
RequiredPayload == Payload(RequiredScalars, Absent, Absent, NoUser)

\* a client without valid authentication asks for every route that
\* requires it
DoAnonymous ==
    Idle /\ LET u == Anonymous IN
        \/ \E p \in {EmptyPayload, RequiredPayload} :
              RecipeView(u, "create", 0, CreateRecipe(u, p))
        \/ \E pk \in 1..MaxRecipes, partial \in BOOLEAN :
              RecipeView(u, UpdateOp(partial), pk,
                         UpdateRecipe(u, pk, EmptyPayload, partial))
        \/ \E pk \in 1..MaxRecipes :
              RecipeView(u, "destroy", pk, DestroyRecipe(u, pk))
        \/ \E pk \in 1..MaxRecipes :
              RecipeView(u, "upload_image", pk, UploadImage(u, pk, TRUE))
        \/ \E pk \in 1..MaxRecipes :
              RecipeView(u, "retrieve", pk, RetrieveRecipe(u, pk))
        \/ RecipeView(u, "list", 0, ListRecipes(u, <<>>, <<>>))
        \/ \E kind \in Kinds, param \in {"", "1"} :
              RecipeView(u, "list_" \o kind, 0, ListAttrs(kind, u, param))
        \/ \E kind \in Kinds, partial \in BOOLEAN :
              \E pk \in 1..MaxAttr(kind), name \in AttrNames(kind) :
                 RecipeView(u, UpdateOp(partial) \o "_" \o kind, pk,
                            UpdateAttr(kind, u, pk, name, partial))
        \/ \E kind \in Kinds :
              \E pk \in 1..MaxAttr(kind) :
                 RecipeView(u, "destroy_" \o kind, pk,
                            DestroyAttr(kind, u, pk))
        \/ \E kind \in Kinds :
              \E pk \in 1..MaxAttr(kind) :
                 RecipeView(u, "retrieve_" \o kind, pk,
                            RetrieveAttr(kind, u, pk))
        \/ \E kind \in Kinds :
              \E name \in AttrNames(kind) :
                 RecipeView(u, "create_" \o kind, 0,
                            CreateAttr(kind, u, name))
        \/ MeView(u, "retrieve_me", RetrieveMe(u))
        \/ \E name \in Names : MeView(u, "update_me", UpdateMe(u, NoValue, name))

\* every route of the recipe app
Next ==
    \/ DoCreateRecipe
    \/ DoUpdateRecipe
    \/ DoDestroyRecipe
    \/ DoUploadImage
    \/ DoRetrieveRecipe
    \/ DoListRecipes
    \/ DoListAttrs
    \/ DoUpdateAttr
    \/ DoDestroyAttr
    \/ DoCreateAttr
    \/ DoRetrieveAttr
    \/ DoAnonymous
    \/ Deliver

Spec == Init /\ [][Next]_vars

\* the routes that read and write recipes, tags and ingredients and their
\* associations; no image is ever uploaded
NextData ==
    \/ DoCreateRecipe
    \/ DoUpdateRecipe
    \/ DoDestroyRecipe
    \/ DoRetrieveRecipe
    \/ DoListRecipes
    \/ DoListAttrs
    \/ DoUpdateAttr
    \/ DoDestroyAttr
    \/ DoCreateAttr
    \/ DoRetrieveAttr
    \/ Deliver

SpecData == Init /\ [][NextData]_vars

\* the routes that write, image upload included
NextWrites ==
    \/ DoCreateRecipe
    \/ DoUpdateRecipe
    \/ DoDestroyRecipe
    \/ DoUploadImage
    \/ DoUpdateAttr
    \/ DoDestroyAttr
    \/ Deliver

SpecWrites == Init /\ [][NextWrites]_vars

\* the routes that write and read the scalar fields of recipes
NextScalars ==
    \/ DoCreateScalars
    \/ DoUpdateScalars
    \/ DoDestroyRecipe
    \/ DoRetrieveRecipe
    \/ Deliver

SpecScalars == Init /\ [][NextScalars]_vars

\* the routes that write, and the client without authentication
NextAuth ==
    \/ DoCreateRecipe
    \/ DoUpdateRecipe
    \/ DoDestroyRecipe
    \/ DoUpdateAttr
    \/ DoDestroyAttr
    \/ DoAnonymous
    \/ Deliver

SpecAuth == Init /\ [][NextAuth]_vars

\* ------------------------------------- recipe writes side by side
\* Two server processes serve recipe writes at the same time.  Each
\* query of RecipeSerializer.create / update and of get_or_create is one
\* step; the steps of the two requests interleave in any order.
KindOf(field) == IF field = "tags" THEN "tag" ELSE "ingredient"

\* the query of get_or_create: the rows of that user and that name
Lookup(rows, auth_user, name) ==
    {row \in rows : row.user = auth_user /\ row.name = name}

\* the payloads of the writes served side by side: nested lists, and the
\* required fields for a create
CreatePayloads ==
    {Payload(RequiredScalars, tagList, ingredientList, NoUser) :
        tagList \in NestedLists(TagNames, MaxTagNames),
        ingredientList \in NestedLists(IngredientNames, MaxIngredientNames)}

UpdatePayloads ==
    {Payload(NoScalars, tagList, ingredientList, NoUser) :
        tagList \in NestedLists(TagNames, MaxTagNames),
        ingredientList \in NestedLists(IngredientNames, MaxIngredientNames)}

\* the names of the payload that the requester has no row of when the
\* request begins
AbsentNames(u, p) ==
    {[field |-> "tags", name |-> n] :
        n \in {m \in Range(p.tags) : Lookup(tags, u, m) = {}}}
    \cup
    {[field |-> "ingredients", name |-> n] :
        n \in {m \in Range(p.ingredients) : Lookup(ingredients, u, m) = {}}}

Work(w, op, u, pk, p, pc) ==
    [inflight EXCEPT ![w] =
        [pc |-> pc, op |-> op, user |-> u, pk |-> pk, field |-> "tags",
         given |-> ValidatedKeys(p) \cap {"tags", "ingredients"},
         tags |-> p.tags, ingredients |-> p.ingredients, obj |-> 0,
         absent |-> AbsentNames(u, p), status |-> 0,
         served |-> inflight[w].served]]

Answer(work, w, status) ==
    [work EXCEPT ![w].pc = "done", ![w].status = status]

\* the step of a process leaves the user app and the serial client alone
Aside == UNCHANGED <<accounts, tokens, last>>

\* POST /recipes: validation, then Recipe.objects.create; the nested lists
\* follow, tags first
BeginCreate(w, u, p) ==
    /\ inflight[w].pc = "idle"
    /\ inflight[w].served < MaxServed
    /\ nextRecipeId <= MaxRecipes
    /\ IsValid(p, FALSE)
    /\ recipes' = recipes \cup
          {[id |-> nextRecipeId, user |-> u, title |-> p.title,
            time_minutes |-> ParseInt(p.time_minutes), price |-> p.price,
            link |-> Blank, description |-> Blank, image |-> NoValue]}
    /\ nextRecipeId' = nextRecipeId + 1
    /\ inflight' = Work(w, "create", u, nextRecipeId, p, "get")
    /\ UNCHANGED <<tags, ingredients, recipe_tags, recipe_ingredients,
                   nextTagId, nextIngredientId>>
    /\ Aside

\* PATCH /recipes/{pk}: get_object (404), then update() from its first
\* statement
BeginUpdate(w, u, pk, p) ==
    /\ inflight[w].pc = "idle"
    /\ inflight[w].served < MaxServed
    /\ inflight' = IF pk \in Ids(OwnRecipes(u))
                   THEN Work(w, "partial_update", u, pk, p, "clear")
                   ELSE Answer(Work(w, "partial_update", u, pk, p, "clear"),
                               w, 404)
    /\ NoChange
    /\ Aside

\* the statement after the list of a field is done: the ingredients
\* after the tags, the save after the ingredients
NextField(w) ==
    IF inflight[w].field = "tags"
    THEN [inflight EXCEPT
             ![w].field = "ingredients",
             ![w].pc = IF inflight[w].op = "create" THEN "get" ELSE "clear"]
    ELSE [inflight EXCEPT ![w].pc = "save"]

\* update(): `if tags is not None: instance.tags.clear()`
ClearStep(w) ==
    LET r == inflight[w] IN
    /\ r.pc = "clear"
    /\ IF r.field \in r.given
       THEN /\ WriteAttr(KindOf(r.field), AttrRows(KindOf(r.field)),
                         Clear(AttrLinks(KindOf(r.field)), r.pk))
            /\ inflight' = [inflight EXCEPT ![w].pc = "get"]
       ELSE /\ NoChange
            /\ inflight' = NextField(w)
    /\ Aside

\* get_or_create, first half: the SELECT for the next name of the list.
\* One row is the object, no row sends the request on to the INSERT,
\* several rows raise MultipleObjectsReturned.
GetStep(w) ==
    LET r == inflight[w]
        found == IF r[r.field] = <<>> THEN {}
                 ELSE Lookup(AttrRows(KindOf(r.field)), r.user,
                             Head(r[r.field]))
    IN
    /\ r.pc = "get"
    /\ inflight' =
          IF r[r.field] = <<>> THEN NextField(w)
          ELSE IF found = {} THEN [inflight EXCEPT ![w].pc = "insert"]
          ELSE IF Cardinality(found) = 1
          THEN [inflight EXCEPT
                   ![w].pc = "add",
                   ![w].obj = (CHOOSE row \in found : TRUE).id]
          ELSE Answer(inflight, w, 500)
    /\ NoChange
    /\ Aside

\* get_or_create, second half: the INSERT of the row the SELECT did not
\* find
InsertStep(w) ==
    LET r == inflight[w]
        kind == KindOf(r.field)
        id == IF kind = "tag" THEN nextTagId ELSE nextIngredientId
    IN
    /\ r.pc = "insert"
    /\ id <= MaxAttr(kind)
    /\ IF kind = "tag"
       THEN /\ tags' = tags \cup
                  {[id |-> id, user |-> r.user, name |-> Head(r.tags)]}
            /\ nextTagId' = id + 1
            /\ UNCHANGED <<ingredients, nextIngredientId>>
       ELSE /\ ingredients' = ingredients \cup
                  {[id |-> id, user |-> r.user, name |-> Head(r.ingredients)]}
            /\ nextIngredientId' = id + 1
            /\ UNCHANGED <<tags, nextTagId>>
    /\ inflight' = [inflight EXCEPT ![w].pc = "add", ![w].obj = id]
    /\ UNCHANGED <<recipes, recipe_tags, recipe_ingredients, nextRecipeId>>
    /\ Aside

\* obj.add(f_obj), then the next name of the list
AddStep(w) ==
    LET r == inflight[w]
        kind == KindOf(r.field)
    IN
    /\ r.pc = "add"
    /\ WriteAttr(kind, AttrRows(kind),
                 AttrLinks(kind) \cup {<<r.pk, r.obj>>})
    /\ inflight' = [inflight EXCEPT
                       ![w].pc = "get",
                       ![w][r.field] = Tail(r[r.field]),
                       ![w].obj = 0]
    /\ Aside

\* the end of the handler: update() saves the instance, whose scalar
\* fields the payload did not name; the response is 201 or 200
SaveStep(w) ==
    /\ inflight[w].pc = "save"
    /\ inflight' = Answer(inflight, w,
                          IF inflight[w].op = "create" THEN 201 ELSE 200)
    /\ NoChange
    /\ Aside

\* the client has the response; the process is free again
Release(w) ==
    /\ inflight[w].pc = "done"
    /\ inflight' = [inflight EXCEPT
                       ![w] = [NoWork EXCEPT
                                  !.served = inflight[w].served + 1]]
    /\ NoChange
    /\ Aside

DoBeginCreate ==
    \E w \in Workers, u \in Users, p \in CreatePayloads : BeginCreate(w, u, p)

DoBeginUpdate ==
    \E w \in Workers, u \in Users, pk \in 1..MaxRecipes :
        \E p \in UpdatePayloads : BeginUpdate(w, u, pk, p)

DoClearStep == \E w \in Workers : ClearStep(w)

DoGetStep == \E w \in Workers : GetStep(w)

DoInsertStep == \E w \in Workers : InsertStep(w)

DoAddStep == \E w \in Workers : AddStep(w)

DoSaveStep == \E w \in Workers : SaveStep(w)

DoRelease == \E w \in Workers : Release(w)

NextConcurrent ==
    \/ DoBeginCreate
    \/ DoBeginUpdate
    \/ DoClearStep
    \/ DoGetStep
    \/ DoInsertStep
    \/ DoAddStep
    \/ DoSaveStep
    \/ DoRelease

SpecConcurrent == Init /\ [][NextConcurrent]_vars

\* the routes of the user app
NextUsers ==
    \/ DoCreateUser
    \/ DoCreateToken
    \/ DoRetrieveMe
    \/ DoUpdateMe
    \/ Deliver

SpecUsers == Init /\ [][NextUsers]_vars

\* ===================================================================
\* Properties
\* ===================================================================
RecipeDetailOps == {"retrieve", "update", "partial_update", "destroy"}

AttrWriteOps(kind) ==
    {"update_" \o kind, "partial_update_" \o kind, "destroy_" \o kind}

ListOk(op) == last.op = op /\ last.status = 200

BodyRows == {last.body[k] : k \in DOMAIN last.body}

Unchanged ==
    /\ recipes' = recipes
    /\ tags' = tags
    /\ ingredients' = ingredients
    /\ recipe_tags' = recipe_tags
    /\ recipe_ingredients' = recipe_ingredients

\* C1: every row of a recipe list, tag list or ingredient list is a stored
\* row whose owner is the user who asked for the list.
C1_ListsOnlyOwnRows ==
    /\ ListOk("list") =>
          \A id \in BodyRows :
             id \in Ids(recipes) /\ Row(recipes, id).user = last.user
    /\ ListOk("list_tag") =>
          \A id \in BodyRows :
             id \in Ids(tags) /\ Row(tags, id).user = last.user
    /\ ListOk("list_ingredient") =>
          \A id \in BodyRows :
             id \in Ids(ingredients) /\ Row(ingredients, id).user = last.user

\* C1 witness: a user is served a non-empty recipe list while another
\* user owns a recipe, a tag and an ingredient.
C1_Witness ==
    /\ ListOk("list")
    /\ last.body # <<>>
    /\ \E r \in recipes : r.user # last.user
    /\ \E t \in tags : t.user # last.user
    /\ \E i \in ingredients : i.user # last.user

\* the request just served targets a row that exists and belongs to
\* another user (read in the state before the request)
ForeignRecipe == \E r \in recipes : r.id = last'.pk /\ r.user # last'.user

ForeignAttr(kind) ==
    \E a \in AttrRows(kind) : a.id = last'.pk /\ a.user # last'.user

\* C2 as stated: a read, update or delete of another user's recipe, tag or
\* ingredient is answered 404 and changes nothing.
C2_ForeignRowIs404 ==
    [][Idle =>
        /\ (last'.op \in RecipeDetailOps /\ ForeignRecipe) =>
              (last'.status = 404 /\ Unchanged)
        /\ \A kind \in Kinds :
              (last'.op \in AttrWriteOps(kind) \cup {"retrieve_" \o kind}
               /\ ForeignAttr(kind)) =>
                 (last'.status = 404 /\ Unchanged)]_vars

\* C2 amended: a read, update or delete of another user's recipe and an
\* update or delete of another user's tag or ingredient are answered 404
\* and change nothing; a detail read of a tag or ingredient is answered
\* 405 whoever owns the row and changes nothing.
C2_ForeignRowIs404Or405 ==
    [][Idle =>
        /\ (last'.op \in RecipeDetailOps /\ ForeignRecipe) =>
              (last'.status = 404 /\ Unchanged)
        /\ \A kind \in Kinds :
              /\ (last'.op \in AttrWriteOps(kind) /\ ForeignAttr(kind)) =>
                    (last'.status = 404 /\ Unchanged)
              /\ last'.op = "retrieve_" \o kind =>
                    (last'.status = 405 /\ Unchanged)]_vars

\* C2 witness: a delete of another user's tag, which is linked to that
\* user's recipe, has been answered 404.
C2_Witness ==
    /\ last.op = "destroy_tag"
    /\ last.status = 404
    /\ \E t \in tags :
          /\ t.id = last.pk
          /\ t.user # last.user
          /\ \E l \in recipe_tags : l[2] = t.id

\* the request just served is a recipe create / update that passed
\* get_object and validation
Created == last'.op = "create" /\ last'.status # 400

Updated ==
    /\ last'.op \in {"update", "partial_update"}
    /\ last'.status \in {200, 500}

\* rows of user u in a table whose name is among names
Named(rows, u, names) ==
    {row \in rows : row.user = u /\ row.name \in names}

\* get-or-create and associate over the names of field, for the recipe r
\* of user u: a name the user already has gets no new row, a name the
\* user does not have gets exactly one new row, no other row appears or
\* goes, and the recipe is linked to exactly the user's rows of the names.
Synced(rows, rowsAfter, linksAfter, field, u, r) ==
    LET names == Range(field)
        absent == {n \in names : Named(rows, u, {n}) = {}}
    IN  /\ rows \subseteq rowsAfter
        /\ \A n \in names \ absent :
              Named(rowsAfter, u, {n}) = Named(rows, u, {n})
        /\ \A n \in absent : Cardinality(Named(rowsAfter, u, {n})) = 1
        /\ rowsAfter \ rows = Named(rowsAfter, u, absent)
        /\ Linked(linksAfter, r) = Ids(Named(rowsAfter, u, names))

\* no user has two rows of one name in the table
NoDuplicates(rows) ==
    \A a, b \in rows : (a.user = b.user /\ a.name = b.name) => a = b

\* C3 as stated: a recipe create gets or creates one row per name for the
\* requester and links the new recipe to exactly the rows of the names.
C3_CreateGetsOrCreates ==
    [][(Idle /\ Created) =>
        /\ Synced(tags, tags', recipe_tags', last'.req.tags,
                  last'.user, last'.pk)
        /\ Synced(ingredients, ingredients', recipe_ingredients',
                  last'.req.ingredients, last'.user, last'.pk)]_vars

\* C3 where no user has two tags or two ingredients of one name: the
\* create is answered 201 and the statement of C3 holds.
C3_CreateGetsOrCreatesNoDuplicates ==
    [][(Idle /\ Created /\ NoDuplicates(tags) /\ NoDuplicates(ingredients)) =>
        /\ last'.status = 201
        /\ Synced(tags, tags', recipe_tags', last'.req.tags,
                  last'.user, last'.pk)
        /\ Synced(ingredients, ingredients', recipe_ingredients',
                  last'.req.ingredients, last'.user, last'.pk)]_vars

\* C4 as stated: an update that carries a tags list leaves the recipe
\* linked to exactly the requester's tags of the names in the list; the
\* same for an ingredients list.
C4_UpdateReplaces ==
    [][(Idle /\ Updated) =>
        /\ "tags" \in last'.req.keys =>
              Synced(tags, tags', recipe_tags', last'.req.tags,
                     last'.user, last'.pk)
        /\ "ingredients" \in last'.req.keys =>
              Synced(ingredients, ingredients', recipe_ingredients',
                     last'.req.ingredients, last'.user, last'.pk)]_vars

\* C4 where no user has two tags or two ingredients of one name.
C4_UpdateReplacesNoDuplicates ==
    [][(Idle /\ Updated /\ NoDuplicates(tags) /\ NoDuplicates(ingredients)) =>
        /\ last'.status = 200
        /\ "tags" \in last'.req.keys =>
              Synced(tags, tags', recipe_tags', last'.req.tags,
                     last'.user, last'.pk)
        /\ "ingredients" \in last'.req.keys =>
              Synced(ingredients, ingredients', recipe_ingredients',
                     last'.req.ingredients, last'.user, last'.pk)]_vars

\* C5: an update without a tags key leaves the tag through table as it
\* was, and one without an ingredients key leaves the ingredient through
\* table as it was, whatever the other key carries.
C5_AbsentKeyKeepsRelation ==
    [][(Idle /\ Updated) =>
        /\ "tags" \notin last'.req.keys =>
              (recipe_tags' = recipe_tags /\ tags' = tags)
        /\ "ingredients" \notin last'.req.keys =>
              (recipe_ingredients' = recipe_ingredients
               /\ ingredients' = ingredients)]_vars

\* C5 witness: an update that carried only a tags list has replaced the
\* tags of a recipe that keeps its ingredient.
C5_Witness ==
    /\ last.op = "partial_update"
    /\ last.status = 200
    /\ last.req.keys = {"tags"}
    /\ last.req.tags # <<>>
    /\ Linked(recipe_tags, last.pk) # {}
    /\ Linked(recipe_ingredients, last.pk) # {}

\* the through rows of the recipes other than r
Others(links, r) == {l \in links : l[1] # r}

\* the update just served carries the key with an empty list
EmptyGiven(key) == key \in last'.req.keys /\ last'.req[key] = <<>>

\* C6: an update that carries tags=[] or ingredients=[] deletes no Tag and
\* no Ingredient row and leaves the associations of the other recipes as
\* they were; tags=[] leaves the recipe without tags; and when the update
\* names no tag and no ingredient it is answered 200, both tables are as
\* they were and each relation given as [] is empty for the recipe.
C6_EmptyListClears ==
    [][(Idle /\ Updated /\ (EmptyGiven("tags") \/ EmptyGiven("ingredients")))
        =>
        /\ tags \subseteq tags'
        /\ ingredients \subseteq ingredients'
        /\ Others(recipe_tags', last'.pk) = Others(recipe_tags, last'.pk)
        /\ Others(recipe_ingredients', last'.pk)
              = Others(recipe_ingredients, last'.pk)
        /\ EmptyGiven("tags") => Linked(recipe_tags', last'.pk) = {}
        /\ (last'.req.tags = <<>> /\ last'.req.ingredients = <<>>) =>
              /\ last'.status = 200
              /\ tags' = tags
              /\ ingredients' = ingredients
              /\ EmptyGiven("ingredients") =>
                    Linked(recipe_ingredients', last'.pk) = {}]_vars

\* C6 witness: an update with tags=[] has been served for a recipe of a
\* user who has a tag, while another recipe has a tag.
C6_Witness ==
    /\ last.op = "partial_update"
    /\ last.status = 200
    /\ "tags" \in last.req.keys
    /\ last.req.tags = <<>>
    /\ Linked(recipe_tags, last.pk) = {}
    /\ \E t \in tags : t.user = last.user
    /\ \E l \in recipe_tags : l[1] # last.pk

\* C7: every through row joins a stored recipe to a stored tag (or
\* ingredient) of the recipe's owner.
C7_AttributesShareOwner ==
    /\ \A l \in recipe_tags :
          /\ l[1] \in Ids(recipes)
          /\ l[2] \in Ids(tags)
          /\ Row(tags, l[2]).user = Row(recipes, l[1]).user
    /\ \A l \in recipe_ingredients :
          /\ l[1] \in Ids(recipes)
          /\ l[2] \in Ids(ingredients)
          /\ Row(ingredients, l[2]).user = Row(recipes, l[1]).user

\* C7 witness: two users each have a recipe with a tag, and the two tags
\* have the same name.
C7_Witness ==
    \E l1, l2 \in recipe_tags :
        /\ Row(recipes, l1[1]).user # Row(recipes, l2[1]).user
        /\ Row(tags, l1[2]).name = Row(tags, l2[2]).name

\* C8: a create stores the requester as the owner; no step changes the
\* owner of a stored recipe; and a valid update of an own recipe whose
\* payload names a user is answered 200.
C8_OwnerImmutable ==
    [][/\ (Idle /\ Created) =>
             \E r \in recipes' \ recipes :
                r.id = last'.pk /\ r.user = last'.user
       /\ \A r \in recipes : \A r2 \in recipes' :
             r2.id = r.id => r2.user = r.user
       /\ (/\ Idle
           /\ last'.op \in {"update", "partial_update"}
           /\ \E r \in recipes : r.id = last'.pk /\ r.user = last'.user
           /\ "user" \in last'.req.keys
           /\ (last'.op = "partial_update"
               \/ Required \subseteq last'.req.keys))
          => last'.status = 200]_vars

\* C8 witness: a partial update naming another user has been answered 200
\* and the recipe still belongs to the requester.
C8_Witness ==
    /\ last.op = "partial_update"
    /\ last.status = 200
    /\ "user" \in last.req.keys
    /\ last.req.user # last.user
    /\ \E r \in recipes : r.id = last.pk /\ r.user = last.user

\* the ids a query parameter of the list just served names
FilterIds(qs) == {ParseInt(qs[k]) : k \in DOMAIN qs}

\* C9: the recipe list holds exactly the requester's recipes that have a
\* tag among the tag ids when the tags parameter is given and an
\* ingredient among the ingredient ids when the ingredients parameter is
\* given.
C9_ListIsFilteredSet ==
    ListOk("list") =>
        BodyRows =
           {r.id : r \in
              {r \in recipes :
                 /\ r.user = last.user
                 /\ Given(last.req.tags) =>
                       Linked(recipe_tags, r.id)
                          \cap FilterIds(last.req.tags) # {}
                 /\ Given(last.req.ingredients) =>
                       Linked(recipe_ingredients, r.id)
                          \cap FilterIds(last.req.ingredients) # {}}}

\* C9 witness: a list with both filters given returns one recipe of the
\* requester and leaves another out.
C9_Witness ==
    /\ ListOk("list")
    /\ Given(last.req.tags)
    /\ Given(last.req.ingredients)
    /\ last.body # <<>>
    /\ \E r \in recipes : r.user = last.user /\ r.id \notin BodyRows

\* C10: the ids of the recipe list are strictly descending, so no recipe
\* is listed twice.
C10_ListStrictlyDescending ==
    ListOk("list") =>
        \A j, k \in DOMAIN last.body : j < k => last.body[j] > last.body[k]

\* C10 witness: a list of two recipes, one of which has two tags of the
\* tag filter and an ingredient of the ingredient filter.
C10_Witness ==
    /\ ListOk("list")
    /\ Len(last.body) = 2
    /\ Given(last.req.tags)
    /\ Given(last.req.ingredients)
    /\ \E id \in BodyRows :
          Cardinality(Linked(recipe_tags, id)
                         \cap FilterIds(last.req.tags)) = 2

\* the rows of the user in the table that some recipe is linked to
Assigned(kind, u) ==
    {a \in AttrRows(kind) :
        a.user = u /\ \E l \in AttrLinks(kind) : l[2] = a.id}

\* C11: a tag or ingredient list with assigned_only=1 holds exactly the
\* requester's rows that a recipe is linked to, and with assigned_only
\* absent or 0 all of the requester's rows; each row once, names
\* descending.
C11_AssignedOnlyList ==
    \A kind \in Kinds :
        ListOk("list_" \o kind) =>
            /\ last.req.assigned_only = "1" =>
                  BodyRows = Ids(Assigned(kind, last.user))
            /\ last.req.assigned_only \in {"", "0"} =>
                  BodyRows = Ids(OwnAttrs(kind, last.user))
            /\ \A j, k \in DOMAIN last.body :
                  j < k =>
                     /\ last.body[j] # last.body[k]
                     /\ NameRank(Row(AttrRows(kind), last.body[j]).name)
                          >= NameRank(Row(AttrRows(kind), last.body[k]).name)

\* C11 witness: a tag list with assigned_only=1 holds one tag, which two
\* recipes are linked to, and leaves out a tag of the requester that no
\* recipe is linked to.
C11_Witness ==
    /\ ListOk("list_tag")
    /\ last.req.assigned_only = "1"
    /\ Len(last.body) = 1
    /\ Cardinality({l \in recipe_tags : l[2] = last.body[1]}) = 2
    /\ \E t \in tags : t.user = last.user /\ t.id \notin BodyRows

\* the recipes linked to attribute a in a through table
LinkedRecipes(links, a) == {l[1] : l \in {m \in links : m[2] = a}}

\* C12: a delete of a recipe by its owner is answered 204 and removes the
\* recipe and its through rows and nothing else: no Tag and no Ingredient
\* row goes, and a row that only the deleted recipe was linked to is still
\* stored and is not in its owner's assigned_only list afterwards.
C12_DestroyKeepsAttributes ==
    [][(Idle /\ last'.op = "destroy"
        /\ \E r \in recipes : r.id = last'.pk /\ r.user = last'.user) =>
        /\ last'.status = 204
        /\ recipes' = {r \in recipes : r.id # last'.pk}
        /\ recipe_tags' = Others(recipe_tags, last'.pk)
        /\ recipe_ingredients' = Others(recipe_ingredients, last'.pk)
        /\ tags' = tags
        /\ ingredients' = ingredients
        /\ \A kind \in Kinds : \A a \in AttrRows(kind) :
              LinkedRecipes(AttrLinks(kind), a.id) = {last'.pk} =>
                 /\ a \in AttrRows(kind)'
                 /\ AttrQueryset(kind, a.user, TRUE)'[a.id] = 0]_vars

\* C12 witness: the only recipe ever created has been deleted by its
\* owner, who still has a tag and an ingredient, neither linked to any
\* recipe.
C12_Witness ==
    /\ last.op = "destroy"
    /\ last.status = 204
    /\ nextRecipeId = 2
    /\ recipes = {}
    /\ \E t \in tags : t.user = last.user
    /\ \E i \in ingredients : i.user = last.user
    /\ recipe_tags = {}
    /\ recipe_ingredients = {}

\* the value a scalar key of the payload is stored as
Stored(p, k) == IF k = "time_minutes" THEN ParseInt(p[k]) ELSE p[k]

\* C13: a partial update answered 200 stores the value of every scalar
\* key of the payload and leaves every other scalar field, the owner and
\* the image of the recipe, and every other recipe, as they were; so a
\* payload of title alone leaves link, price, time_minutes, description
\* and owner unchanged.
C13_PatchKeepsAbsentFields ==
    [][(Idle /\ last'.op = "partial_update" /\ last'.status = 200) =>
        LET before == Row(recipes, last'.pk)
            after == Row(recipes', last'.pk)
        IN  /\ \A k \in ScalarKeys :
                  after[k] = IF k \in last'.req.keys
                             THEN Stored(last'.req, k)
                             ELSE before[k]
            /\ after.user = before.user
            /\ after.image = before.image
            /\ recipes' \ {after} = recipes \ {before}]_vars

\* C13 witness: a partial update of title alone has given a new title to
\* a recipe that has a link, a description and a time of 2 minutes.
C13_Witness ==
    /\ last.op = "partial_update"
    /\ last.status = 200
    /\ last.req.keys = {"title"}
    /\ \E r \in recipes :
          /\ r.id = last.pk
          /\ r.title = "t2"
          /\ r.time_minutes = 2
          /\ r.link = "l1"
          /\ r.description = "d1"
          /\ r.user = last.user

ProtectedOps ==
    {"create", "update", "partial_update", "destroy", "upload_image",
     "retrieve", "list", "retrieve_me", "update_me"}
    \cup UNION {{"list_" \o kind, "create_" \o kind, "update_" \o kind,
                 "partial_update_" \o kind, "destroy_" \o kind,
                 "retrieve_" \o kind} : kind \in Kinds}

\* C15: a request without valid authentication to a recipe, tag,
\* ingredient or /users/me route is answered 401 and leaves the recipes,
\* tags, ingredients and associations as they were.
C15_UnauthenticatedIs401 ==
    [][(Idle /\ last'.user = Anonymous /\ last'.op \in ProtectedOps) =>
        (last'.status = 401 /\ Unchanged /\ accounts' = accounts)]_vars

\* C15 witness: a create without authentication has been answered 401
\* while a recipe with a tag and an ingredient is stored.
C15_Witness ==
    /\ last.op = "create"
    /\ last.user = Anonymous
    /\ last.status = 401
    /\ recipe_tags # {}
    /\ recipe_ingredients # {}

\* C16 as stated: an upload by the owner of the recipe is answered 200
\* and records the image on the recipe when the payload is a valid image,
\* and is answered 400 and leaves the recipe as it was when it is not.
C16_UploadImage ==
    [][(Idle /\ last'.op = "upload_image"
        /\ \E r \in recipes : r.id = last'.pk /\ r.user = last'.user) =>
        IF last'.req.valid
        THEN /\ last'.status = 200
             /\ \E r \in recipes' : r.id = last'.pk /\ r.image # NoValue
        ELSE /\ last'.status = 400
             /\ recipes' = recipes]_vars

\* C17: a token request with the email and the password of a registered
\* user is answered 200 with a token; one with a wrong password, an
\* unknown email or a blank password is answered 400 without a token key.
C17_TokenIssuance ==
    [][(Idle /\ last'.op = "create_token") =>
        LET email == last'.req.email
            password == last'.req.password
        IN  /\ (\E a \in accounts : a.email = email /\ a.password = password)
                  => (last'.status = 200 /\ "token" \in DOMAIN last'.data)
            /\ (\/ email \notin Registered
                \/ password = ""
                \/ \E a \in accounts :
                      a.email = email /\ a.password # password)
                  => (last'.status = 400
                      /\ "token" \notin DOMAIN last'.data)]_vars

\* C17 witness: a token request for a registered email has been refused
\* for a password that is the password of another user.
C17_Witness ==
    /\ last.op = "create_token"
    /\ last.status = 400
    /\ last.req.email \in Registered
    /\ last.req.password # ""
    /\ \E a \in accounts :
          a.email # last.req.email /\ a.password = last.req.password

\* the nested list of the recipe write just served that feeds the table
NestedNames(kind) ==
    IF kind = "tag" THEN Range(last'.req.tags)
    ELSE Range(last'.req.ingredients)

\* C18: a step that adds a Tag or Ingredient row is a recipe create or a
\* recipe update, and every row it adds belongs to the requester and has
\* a name of the nested list that the requester had no row of; no tag or
\* ingredient route and no other route adds a row.
C18_RowsOnlyFromRecipeWrites ==
    [][\A kind \in Kinds :
          LET added == {a \in AttrRows(kind)' :
                           a.id \notin Ids(AttrRows(kind))}
          IN  added # {} =>
                 /\ last'.op \in {"create", "update", "partial_update"}
                 /\ \A a \in added :
                       /\ a.user = last'.user
                       /\ a.name \in NestedNames(kind)
                       /\ Named(AttrRows(kind), a.user, {a.name}) = {}]_vars

\* C18 witness: a recipe update has created the second tag, for a name
\* of its list, and linked it to the recipe.
C18_Witness ==
    /\ last.op = "partial_update"
    /\ last.status = 200
    /\ nextTagId = 3
    /\ \E t \in tags :
          /\ t.id = 2
          /\ t.user = last.user
          /\ t.name \in Range(last.req.tags)
          /\ <<last.pk, t.id>> \in recipe_tags

\* C19 as stated: in every reachable state no user owns two Tag rows of
\* one name nor two Ingredient rows of one name.
C19_NoDuplicateNames == NoDuplicates(tags) /\ NoDuplicates(ingredients)

\* C20 as stated: a recipe update that is not answered 200 leaves the
\* recipes, the tags, the ingredients and the associations as they were
\* before the request.
C20_UpdateAllOrNothing ==
    [][(Idle /\ last'.op \in {"update", "partial_update"}
        /\ last'.status # 200) => Unchanged]_vars

\* both processes have answered their request with success
BothDone(w1, w2) ==
    /\ w1 # w2
    /\ inflight[w1].pc = "done"
    /\ inflight[w2].pc = "done"
    /\ inflight[w1].status \in {200, 201}
    /\ inflight[w2].status \in {200, 201}
    /\ inflight[w1].user = inflight[w2].user

\* C21 as stated: when two recipe writes of one user, both naming a tag
\* or ingredient name the user had no row of when they began, have both
\* been answered, the user has exactly one row of that name and both
\* recipes are linked to it.
C21_GetOrCreateAtomic ==
    \A w1, w2 \in Workers :
        BothDone(w1, w2) =>
            \A a \in inflight[w1].absent \cap inflight[w2].absent :
                LET kind == KindOf(a.field)
                    rows == Named(AttrRows(kind), inflight[w1].user, {a.name})
                IN  /\ Cardinality(rows) = 1
                    /\ \A row \in rows :
                          /\ <<inflight[w1].pk, row.id>> \in AttrLinks(kind)
                          /\ <<inflight[w2].pk, row.id>> \in AttrLinks(kind)

\* a comma-separated id list with an element that is not an integer
MalformedIds(qs) == Given(qs) /\ \E k \in DOMAIN qs : ~IsInt(qs[k])

\* the request just served is a list request with a malformed parameter
MalformedList(resp) ==
    \/ /\ resp.op = "list"
       /\ MalformedIds(resp.req.tags) \/ MalformedIds(resp.req.ingredients)
    \/ /\ resp.op \in {"list_tag", "list_ingredient"}
       /\ resp.req.assigned_only # ""
       /\ ~IsInt(resp.req.assigned_only)

\* C22 as stated: a recipe list request whose tags or ingredients
\* parameter has an element that is not an integer (an empty element
\* included), and a tag or ingredient list request whose assigned_only
\* parameter is not an integer, are answered 400 and change no stored row.
C22_MalformedIs400 ==
    [][(Idle /\ MalformedList(last')) =>
          (last'.status = 400 /\ Unchanged)]_vars

====
